---- MODULE Spec2Model ----
(***************************************************************************)
(* GoFast: a concurrent, range-based file downloader (src/main.go).        *)
(*                                                                         *)
(* main resolves the size, GetDownloadChunks plans the byte ranges, and    *)
(* DownloadChunks starts one goroutine per chunk.  Every goroutine issues  *)
(* a ranged GET, takes the mutex, seeks the shared file handle to its      *)
(* Start, copies the body, and sends one outcome on the unbuffered channel *)
(* errChan; the coordinator receives outcomes and returns at the first     *)
(* error or after len(chunks) successes.                                   *)
(***************************************************************************)
EXTENDS Integers, Sequences, FiniteSets, TLC

(***************************************************************************)
(* Bounds of the model.                                                    *)
(***************************************************************************)
\* Largest resource size of a modelled download.
MaxSize == 4
\* Largest worker count of a modelled download.
MaxThreads == 3
\* Largest resource size and worker count for the planner taken alone.
MaxPlanSize == 40
MaxPlanThreads == 6
\* Largest resource size and worker count of a direct call of DownloadChunks.
MaxCallSize == 2
MaxCallThreads == 2
\* Width of the unsigned integers of the model (uint64 in the source).
UintBits == 16

UintMod == 2 ^ UintBits

\* Unsigned arithmetic of the source: every result is reduced modulo 2^w.
Wrap(x) == x % UintMod

\* http.StatusPartialContent
StatusPartialContent == 206
\* Statuses a server gives when it ignores or cannot satisfy the range.
StatusOK == 200
StatusRangeNotSatisfiable == 416

(***************************************************************************)
(* Decimal text: strconv.ParseInt(s, 10, 64) and the %d of fmt.Sprintf.    *)
(* A string is a sequence of one-character strings.                        *)
(***************************************************************************)
DigitChars == << "0", "1", "2", "3", "4", "5", "6", "7", "8", "9" >>

IsDigit(c) == \E d \in 1..10 : DigitChars[d] = c

DigitValue(c) == (CHOOSE d \in 1..10 : DigitChars[d] = c) - 1

\* The largest value of the signed integers of the model (int64).
IntMax == 2 ^ (UintBits - 1) - 1

RECURSIVE DigitsValue(_)
\* The value of a string of digits, most significant first; a value beyond
\* the signed range stays beyond it.
DigitsValue(ds) ==
    IF ds = << >>
    THEN 0
    ELSE LET high == DigitsValue(SubSeq(ds, 1, Len(ds) - 1))
         IN  IF high > IntMax
             THEN high
             ELSE high * 10 + DigitValue(ds[Len(ds)])

\* strconv.ParseInt(s, 10, 64): an optional sign and at least one digit,
\* nothing else, and a value in the signed range; ok is FALSE on an error.
ParseInt(s) ==
    LET signed == s # << >> /\ s[1] \in { "+", "-" }
        digits == IF signed THEN Tail(s) ELSE s
        value == IF signed /\ s[1] = "-"
                 THEN 0 - DigitsValue(digits)
                 ELSE DigitsValue(digits)
    IN  IF digits = << >> \/ \E k \in 1..Len(digits) : ~ IsDigit(digits[k])
        THEN [ok |-> FALSE, value |-> 0]
        ELSE IF value > IntMax \/ value < 0 - IntMax - 1
        THEN [ok |-> FALSE, value |-> 0]
        ELSE [ok |-> TRUE, value |-> value]

RECURSIVE FormatUint(_)
\* %d of an unsigned value: its decimal digits.
FormatUint(n) ==
    IF n < 10
    THEN << DigitChars[n + 1] >>
    ELSE FormatUint(n \div 10) \o << DigitChars[(n % 10) + 1] >>

(***************************************************************************)
(* GetDownloadChunks (src/main.go:66-86).                                  *)
(***************************************************************************)
DownloadChunk(start, end) == [Start |-> start, End |-> end]

\* chunkSize := size / threads
ChunkSize(size, threads) == size \div threads

\* The last chunk's End as Start + size, without taking Start away from the
\* size (LastChunk with a fault).
LastChunk_AddsSize(i, chunkSize, size) ==
    DownloadChunk(Wrap(i * chunkSize), Wrap(Wrap(i * chunkSize) + size))

\* The last chunk's End, dropping the remainder (LastChunk with a fault).
LastChunk_NoRemainder(i, chunkSize, size) ==
    DownloadChunk(Wrap(i * chunkSize), Wrap(Wrap(i * chunkSize) + chunkSize))

\* i == threads - 1: the chunk that absorbs the remainder.
LastChunk(i, chunkSize, size) ==
    DownloadChunk(Wrap(i * chunkSize),
                  Wrap(Wrap(i * chunkSize) + Wrap(size - Wrap(i * chunkSize))))

\* A chunk that starts one chunk too far (InnerChunk with a fault).
InnerChunk_Shifted(i, chunkSize) ==
    DownloadChunk(Wrap((i + 1) * chunkSize),
                  Wrap(Wrap((i + 1) * chunkSize) + chunkSize))

\* i < threads - 1: a chunk of exactly chunkSize bytes.
InnerChunk(i, chunkSize) ==
    DownloadChunk(Wrap(i * chunkSize), Wrap(Wrap(i * chunkSize) + chunkSize))

\* A planner that gives a single chunk for an empty resource (GetDownloadChunks
\* with a fault).
GetDownloadChunks_CapEmpty(size, threads) ==
    IF size = 0
    THEN << DownloadChunk(0, 0) >>
    ELSE [k \in 1..threads |->
            IF k - 1 = threads - 1
            THEN LastChunk(k - 1, ChunkSize(size, threads), size)
            ELSE InnerChunk(k - 1, ChunkSize(size, threads))]

\* results[i] for i in 0..threads-1, held at index i+1 of the sequence.
GetDownloadChunks(size, threads) ==
    [k \in 1..threads |->
        IF k - 1 = threads - 1
        THEN LastChunk(k - 1, ChunkSize(size, threads), size)
        ELSE InnerChunk(k - 1, ChunkSize(size, threads))]

(***************************************************************************)
(* The remote resource and the server's answer to a ranged GET.            *)
(***************************************************************************)
\* The byte of the resource at offset o: distinct per offset, never 0, so a
\* byte at a wrong offset and a hole left by a seek are both visible.
ResourceByte(o) == o + 1

Resource(size) == [k \in 1..size |-> ResourceByte(k - 1)]

Min(a, b) == IF a <= b THEN a ELSE b

\* bytes=<start>-<end> with an inclusive end, on a resource of `size` bytes.
RangeResponse(start, end, size) ==
    IF start > end
    THEN [status |-> StatusOK, body |-> Resource(size)]
    ELSE IF start >= size
    THEN [status |-> StatusRangeNotSatisfiable, body |-> << >>]
    ELSE [status |-> StatusPartialContent,
          body |-> [k \in 1..(Min(end, size - 1) - start + 1) |->
                        ResourceByte(start + k - 1)]]

\* chunkHeader := fmt.Sprintf("bytes=%d-%d", start, end)
RangeHeader(start, end) == [first |-> FormatUint(start), last |-> FormatUint(end)]

\* The offsets a Range header asks for: HTTP reads its end as inclusive.
RequestedSpan(hdr) == DigitsValue(hdr.first)..DigitsValue(hdr.last)

\* The server's answers to a GET with the header hdr on a resource of
\* `size` bytes: the range, or the whole resource if it ignores the header.
ServerResponses(hdr, size) ==
    { RangeResponse(DigitsValue(hdr.first), DigitsValue(hdr.last), size),
      [status |-> StatusOK, body |-> Resource(size)] }

(***************************************************************************)
(* The output file: a byte sequence and the handle's shared cursor.        *)
(***************************************************************************)
\* Write byte b at offset off; a write past the end leaves a hole of zeros.
WriteAt(f, off, b) ==
    IF off < Len(f)
    THEN [f EXCEPT ![off + 1] = b]
    ELSE f \o [k \in 1..(off - Len(f)) |-> 0] \o << b >>

VARIABLES
    resLen,     \* the length of the resource behind the url
    header,     \* resp.Header["Content-Length"] of the HEAD response
    arg,        \* os.Args[2], the thread count as text
    mainErr,    \* the error main reports before DownloadChunks, Nil if none
    size,       \* downloadSize in main
    threads,    \* threads in main
    chunks,     \* the plan handed to DownloadChunks
    cpc,        \* where main / the coordinator of DownloadChunks stands
    launched,   \* goroutines started by the launch loop
    nrecv,      \* i of the result loop: nil outcomes received so far
    ret,        \* DownloadChunks' return value, NotReturned until it returns
    recvd,      \* the outcomes received from errChan, in order
    fopen,      \* whether the handle f is open
    cursor,     \* the handle's file offset
    file,       \* the content of the output file
    mutex,      \* 0 when free, else the task holding it
    tpc,        \* per task: where the goroutine stands
    status,     \* per task: resp.StatusCode, 0 before the response
    body,       \* per task: the bytes of resp.Body not yet copied
    outcome,    \* per task: the value it sends, Pending until known
    written,    \* per task: the offsets it wrote, in order
    reports,    \* per task: how many sends on errChan have completed
    gets        \* per task: how many GET requests it has issued

vars == << resLen, header, arg, mainErr, size, threads, chunks, cpc, launched,
           nrecv, ret, recvd, fopen, cursor, file, mutex, tpc, status, body,
           outcome, written, reports, gets >>

Tasks == DOMAIN tpc

\* An error value: what failed and in which task (0: the coordinator).
Err(kind, t) == [kind |-> kind, task |-> t]

\* The nil error, a task's outcome before it is known, and DownloadChunks'
\* result before it returns.
Nil == Err("nil", 0)
Pending == Err("pending", 0)
NotReturned == Err("none", 0)

(***************************************************************************)
(* GetFileSize (src/main.go:33-51), after the HEAD response has arrived:   *)
(* h is resp.Header["Content-Length"], a sequence of values, empty if nil. *)
(***************************************************************************)
\* uint64(size): a negative value wraps around.
Uint(v) == Wrap(v)

GetFileSize(h) ==
    IF h = << >>
    THEN [size |-> 0, err |-> Err("nolength", 0)]
    ELSE IF ~ ParseInt(h[1]).ok
    THEN [size |-> 0, err |-> Err("parse", 0)]
    ELSE [size |-> Uint(ParseInt(h[1]).value), err |-> Nil]


(***************************************************************************)
(* Initial states: main has the size and the thread count (t > 0 after the *)
(* check of src/main.go:185) and is about to plan.                         *)
(***************************************************************************)
InitWith(sizes, counts) ==
    /\ resLen = 0
    /\ header = << >>
    /\ arg = << >>
    /\ mainErr = Nil
    /\ gets = << >>
    /\ size \in sizes
    /\ threads \in counts
    /\ chunks = << >>
    /\ cpc = "plan"
    /\ launched = 0
    /\ nrecv = 0
    /\ ret = NotReturned
    /\ recvd = << >>
    /\ fopen = FALSE
    /\ cursor = 0
    /\ file = << >>
    /\ mutex = 0
    /\ tpc = << >>
    /\ status = << >>
    /\ body = << >>
    /\ outcome = << >>
    /\ written = << >>
    /\ reports = << >>

\* The Content-Length headers a server may send for a resource of n bytes:
\* none, the length, a negative number, text, a number beyond int64.
Headers(n) ==
    { << >>, << FormatUint(n) >>, << << "-", "1" >> >>, << << "x" >> >>,
      << FormatUint(UintMod - 1) >> }

\* The thread counts a user may type: 0 and up, a negative number, text.
Args == { FormatUint(n) : n \in 0..MaxThreads } \cup { << "-", "1" >>, << "x" >> }

\* main is started with a url and a thread count; nothing has run yet.
Init ==
    /\ resLen \in 0..MaxSize
    /\ header \in Headers(resLen)
    /\ arg \in Args
    /\ mainErr = Nil
    /\ size = 0
    /\ threads = 0
    /\ chunks = << >>
    /\ cpc = "head"
    /\ launched = 0
    /\ nrecv = 0
    /\ ret = NotReturned
    /\ recvd = << >>
    /\ fopen = FALSE
    /\ cursor = 0
    /\ file = << >>
    /\ mutex = 0
    /\ tpc = << >>
    /\ status = << >>
    /\ body = << >>
    /\ outcome = << >>
    /\ written = << >>
    /\ reports = << >>
    /\ gets = << >>

taskVars == << tpc, status, body, outcome, written, reports, gets >>
fileVars == << fopen, cursor, file >>
coordVars == << cpc, launched, nrecv, ret, recvd >>
envVars == << resLen, header, arg, mainErr >>
inputVars == << size, threads, chunks, resLen, header, arg, mainErr >>

(***************************************************************************)
(* main: GetFileSize and the thread count (src/main.go:173-189).           *)
(***************************************************************************)
\* http.Head fails: GetFileSize returns the error and main reports it.
HeadFails ==
    /\ cpc = "head"
    /\ mainErr' = Err("head", 0)
    /\ cpc' = "exit"
    /\ UNCHANGED << resLen, header, arg, size, threads, chunks >>
    /\ UNCHANGED << launched, nrecv, ret, recvd, mutex >>
    /\ UNCHANGED fileVars
    /\ UNCHANGED taskVars

\* A main that goes on after an error of GetFileSize (MainStopsOn with a
\* fault).
MainStopsOn_Never(e) == FALSE

\* if err != nil { fmt.Fprintf(os.Stderr, ...); return }
MainStopsOn(e) == e # Nil

\* downloadSize, err := GetFileSize(os.Args[1]), the response in hand.
CallGetFileSize ==
    /\ cpc = "head"
    /\ IF MainStopsOn(GetFileSize(header).err)
       THEN /\ mainErr' = GetFileSize(header).err
            /\ cpc' = "exit"
            /\ size' = size
       ELSE /\ size' = GetFileSize(header).size
            /\ cpc' = "args"
            /\ mainErr' = mainErr
    /\ UNCHANGED << resLen, header, arg, threads, chunks >>
    /\ UNCHANGED << launched, nrecv, ret, recvd, mutex >>
    /\ UNCHANGED fileVars
    /\ UNCHANGED taskVars

\* t, err := strconv.ParseInt(os.Args[2], 10, 64); t <= 0 is refused.
ParseThreads ==
    /\ cpc = "args"
    /\ IF ~ ParseInt(arg).ok
       THEN /\ mainErr' = Err("threadparse", 0)
            /\ cpc' = "exit"
            /\ threads' = threads
       ELSE IF ParseInt(arg).value <= 0
       THEN /\ mainErr' = Err("threadcount", 0)
            /\ cpc' = "exit"
            /\ threads' = threads
       ELSE /\ threads' = Uint(ParseInt(arg).value)
            /\ cpc' = "plan"
            /\ mainErr' = mainErr
    /\ UNCHANGED << resLen, header, arg, size, chunks >>
    /\ UNCHANGED << launched, nrecv, ret, recvd, mutex >>
    /\ UNCHANGED fileVars
    /\ UNCHANGED taskVars

(***************************************************************************)
(* main: chunks := GetDownloadChunks(downloadSize, threads)                *)
(***************************************************************************)
CallGetDownloadChunks ==
    /\ cpc = "plan"
    /\ threads # 0
    /\ chunks' = GetDownloadChunks(size, threads)
    /\ cpc' = "create"
    /\ UNCHANGED << size, threads, launched, nrecv, ret, recvd, mutex >>
    /\ UNCHANGED envVars
    /\ UNCHANGED fileVars
    /\ UNCHANGED taskVars

\* size / threads with threads = 0: the runtime panics (integer divide by
\* zero) and no plan is returned.  main never gets here: it refuses t <= 0.
GetDownloadChunksPanics ==
    /\ cpc = "plan"
    /\ threads = 0
    /\ cpc' = "panic"
    /\ UNCHANGED << size, threads, chunks, launched, nrecv, ret, recvd, mutex >>
    /\ UNCHANGED envVars
    /\ UNCHANGED fileVars
    /\ UNCHANGED taskVars

(***************************************************************************)
(* DownloadChunks: os.Create, defer f.Close, the mutex and errChan.        *)
(***************************************************************************)
\* A DownloadChunks that goes on after os.Create failed (CreateFailed with
\* a fault).
CreateFailed_Ignored(e) == FALSE

\* if err != nil { return fmt.Errorf("Error: Failed to create file ...") }
CreateFailed(e) == e # Nil

CreateFile ==
    /\ cpc = "create"
    /\ \E e \in { Nil, Err("create", 0) } :
         IF ~ CreateFailed(e)
         THEN /\ fopen' = (e = Nil)
              /\ file' = << >>
              /\ cursor' = 0
              /\ cpc' = IF Len(chunks) = 0 THEN "recv" ELSE "spawn"
              /\ ret' = ret
              /\ gets' = [t \in 1..Len(chunks) |-> 0]
              /\ tpc' = [t \in 1..Len(chunks) |-> "idle"]
              /\ status' = [t \in 1..Len(chunks) |-> 0]
              /\ body' = [t \in 1..Len(chunks) |-> << >>]
              /\ outcome' = [t \in 1..Len(chunks) |-> Pending]
              /\ written' = [t \in 1..Len(chunks) |-> << >>]
              /\ reports' = [t \in 1..Len(chunks) |-> 0]
         ELSE /\ ret' = e
              /\ cpc' = "returned"
              /\ UNCHANGED fileVars
              /\ UNCHANGED taskVars
    /\ UNCHANGED << launched, nrecv, recvd, mutex >>
    /\ UNCHANGED inputVars

\* for i := 0; i < len(chunks); i++ { go func(start, end) {...}(...) }
Spawn ==
    /\ cpc = "spawn"
    /\ launched < Len(chunks)
    /\ launched' = launched + 1
    /\ tpc' = [tpc EXCEPT ![launched + 1] = "start"]
    /\ cpc' = IF launched + 1 = Len(chunks) THEN "recv" ELSE "spawn"
    /\ UNCHANGED << nrecv, ret, recvd, mutex >>
    /\ UNCHANGED << status, body, outcome, written, reports, gets >>
    /\ UNCHANGED fileVars
    /\ UNCHANGED inputVars

(***************************************************************************)
(* The goroutine of chunk t.                                               *)
(***************************************************************************)
\* A status check that also lets 200 through (StatusAccepted with a fault).
StatusAccepted_AlsoOK(code) == code \in { StatusPartialContent, StatusOK }

\* resp.StatusCode != http.StatusPartialContent is a failure.
StatusAccepted(code) == code = StatusPartialContent

\* http.NewRequest fails (url, an argument of DownloadChunks, does not
\* parse): the task has its outcome and goes to send it.
NewRequestFails(t) ==
    /\ tpc[t] = "start"
    /\ outcome' = [outcome EXCEPT ![t] = Err("newrequest", t)]
    /\ tpc' = [tpc EXCEPT ![t] = "send"]
    /\ UNCHANGED << status, body, written, reports, gets, mutex >>
    /\ UNCHANGED fileVars
    /\ UNCHANGED coordVars
    /\ UNCHANGED inputVars

\* http.DefaultClient.Do fails: no response.
DoFails(t) ==
    /\ tpc[t] = "start"
    /\ outcome' = [outcome EXCEPT ![t] = Err("do", t)]
    /\ tpc' = [tpc EXCEPT ![t] = "send"]
    /\ gets' = [gets EXCEPT ![t] = @ + 1]
    /\ UNCHANGED << status, body, written, reports, mutex >>
    /\ UNCHANGED fileVars
    /\ UNCHANGED coordVars
    /\ UNCHANGED inputVars

\* Range: bytes=<start>-<end>, the response and the status check.
\* A task that asks again after a refused status (PcAfterBadStatus with a
\* fault).
PcAfterBadStatus_Retry(t) == "start"

\* errChan<-fmt.Errorf("Error: Unsuccessful status code ..."); return
PcAfterBadStatus(t) == "send"

Request(t) ==
    /\ tpc[t] = "start"
    /\ \E r \in ServerResponses(RangeHeader(chunks[t].Start, chunks[t].End), resLen) :
         /\ status' = [status EXCEPT ![t] = r.status]
         /\ body' = [body EXCEPT ![t] = r.body]
         /\ IF StatusAccepted(r.status)
            THEN /\ tpc' = [tpc EXCEPT ![t] = "lock"]
                 /\ outcome' = outcome
            ELSE /\ tpc' = [tpc EXCEPT ![t] = PcAfterBadStatus(t)]
                 /\ outcome' = [outcome EXCEPT ![t] = Err("status", t)]
    /\ gets' = [gets EXCEPT ![t] = @ + 1]
    /\ UNCHANGED << written, reports, mutex >>
    /\ UNCHANGED fileVars
    /\ UNCHANGED coordVars
    /\ UNCHANGED inputVars

\* A lock that never waits (MutexFree with a fault).
MutexFree_Always(m) == TRUE

\* mutex.Lock() returns only when no task holds the mutex.
MutexFree(m) == m = 0

Lock(t) ==
    /\ tpc[t] = "lock"
    /\ MutexFree(mutex)
    /\ mutex' = t
    /\ tpc' = [tpc EXCEPT ![t] = "seek"]
    /\ UNCHANGED << status, body, outcome, written, reports, gets >>
    /\ UNCHANGED fileVars
    /\ UNCHANGED coordVars
    /\ UNCHANGED inputVars

\* A seek one byte too far (SeekOffset with a fault).
SeekOffset_OffByOne(start) == start + 1

\* f.Seek(int64(start), 0): the offset the cursor is set to.
SeekOffset(start) == start

\* f.Seek succeeds (only on an open handle).
SeekOk(t) ==
    /\ tpc[t] = "seek"
    /\ fopen
    /\ cursor' = SeekOffset(chunks[t].Start)
    /\ tpc' = [tpc EXCEPT ![t] = "copy"]
    /\ UNCHANGED << fopen, file, mutex >>
    /\ UNCHANGED << status, body, outcome, written, reports, gets >>
    /\ UNCHANGED coordVars
    /\ UNCHANGED inputVars

\* The error of a call on f: os.ErrClosed once f is closed, an I/O error
\* otherwise.
FileErr(kind, t) == Err(IF fopen THEN kind ELSE "closed", t)

\* f.Seek fails (always on a closed handle): send the error, still locked.
SeekFails(t) ==
    /\ tpc[t] = "seek"
    /\ outcome' = [outcome EXCEPT ![t] = FileErr("seek", t)]
    /\ tpc' = [tpc EXCEPT ![t] = "sendLocked"]
    /\ UNCHANGED << status, body, written, reports, gets, mutex >>
    /\ UNCHANGED fileVars
    /\ UNCHANGED coordVars
    /\ UNCHANGED inputVars

\* io.Copy moves one more byte of the body to the file at the cursor.
CopyByte(t) ==
    /\ tpc[t] = "copy"
    /\ body[t] # << >>
    /\ fopen
    /\ file' = WriteAt(file, cursor, Head(body[t]))
    /\ written' = [written EXCEPT ![t] = Append(@, cursor)]
    /\ cursor' = cursor + 1
    /\ body' = [body EXCEPT ![t] = Tail(@)]
    /\ UNCHANGED << fopen, mutex, tpc, status, outcome, reports, gets >>
    /\ UNCHANGED coordVars
    /\ UNCHANGED inputVars

\* io.Copy fails on a read of the body or a write to the file (always on a
\* closed handle): send the error, still locked.
CopyFails(t) ==
    /\ tpc[t] = "copy"
    /\ body[t] # << >>
    /\ outcome' = [outcome EXCEPT ![t] = FileErr("copy", t)]
    /\ tpc' = [tpc EXCEPT ![t] = "sendLocked"]
    /\ UNCHANGED << status, body, written, reports, gets, mutex >>
    /\ UNCHANGED fileVars
    /\ UNCHANGED coordVars
    /\ UNCHANGED inputVars

\* A success path that keeps the mutex (Unlocked with a fault).
Unlocked_Forgotten(m) == m

\* mutex.Unlock(): the mutex is free again.
Unlocked(m) == 0

\* io.Copy reaches the end of the body: mutex.Unlock(), then errChan<-nil.
CopyDone(t) ==
    /\ tpc[t] = "copy"
    /\ body[t] = << >>
    /\ mutex' = Unlocked(mutex)
    /\ outcome' = [outcome EXCEPT ![t] = Nil]
    /\ tpc' = [tpc EXCEPT ![t] = "send"]
    /\ UNCHANGED << status, body, written, reports, gets >>
    /\ UNCHANGED fileVars
    /\ UNCHANGED coordVars
    /\ UNCHANGED inputVars

\* mutex.Unlock() after the send of a seek or copy error; then return.
UnlockAfterError(t) ==
    /\ tpc[t] = "unlock"
    /\ mutex' = Unlocked(mutex)
    /\ tpc' = [tpc EXCEPT ![t] = "done"]
    /\ UNCHANGED << status, body, outcome, written, reports, gets >>
    /\ UNCHANGED fileVars
    /\ UNCHANGED coordVars
    /\ UNCHANGED inputVars

(***************************************************************************)
(* The result loop: errChan is unbuffered, so a send completes only in a   *)
(* rendezvous with the coordinator's receive.                              *)
(***************************************************************************)
\* A result loop that keeps receiving after an error (ReturnsOn with a
\* fault).
ReturnsOn_Never(e) == FALSE

\* if err != nil { return err }
ReturnsOn(e) == e # Nil

Receive(t) ==
    /\ cpc = "recv"
    /\ nrecv < Len(chunks)
    /\ tpc[t] \in { "send", "sendLocked" }
    /\ recvd' = Append(recvd, outcome[t])
    /\ reports' = [reports EXCEPT ![t] = @ + 1]
    /\ tpc' = [tpc EXCEPT ![t] = IF tpc[t] = "sendLocked" THEN "unlock" ELSE "done"]
    /\ IF ReturnsOn(outcome[t])
       THEN /\ ret' = outcome[t]
            /\ cpc' = "returned"
            /\ fopen' = FALSE
            /\ nrecv' = nrecv
       ELSE /\ nrecv' = nrecv + 1
            /\ UNCHANGED << ret, cpc, fopen >>
    /\ UNCHANGED << launched, mutex, cursor, file >>
    /\ UNCHANGED << status, body, outcome, written, gets >>
    /\ UNCHANGED inputVars

\* The loop ends after len(chunks) nil outcomes: return nil (f is closed).
ReturnNil ==
    /\ cpc = "recv"
    /\ nrecv = Len(chunks)
    /\ ret' = Nil
    /\ cpc' = "returned"
    /\ fopen' = FALSE
    /\ UNCHANGED << launched, nrecv, recvd, mutex, cursor, file >>
    /\ UNCHANGED taskVars
    /\ UNCHANGED inputVars

\* The steps of DownloadChunks and of its goroutines.
DownloadNext ==
    \/ CreateFile
    \/ Spawn
    \/ \E t \in Tasks : Request(t)
    \/ \E t \in Tasks : DoFails(t)
    \/ \E t \in Tasks : NewRequestFails(t)
    \/ \E t \in Tasks : Lock(t)
    \/ \E t \in Tasks : SeekOk(t)
    \/ \E t \in Tasks : SeekFails(t)
    \/ \E t \in Tasks : CopyByte(t)
    \/ \E t \in Tasks : CopyFails(t)
    \/ \E t \in Tasks : CopyDone(t)
    \/ \E t \in Tasks : UnlockAfterError(t)
    \/ \E t \in Tasks : Receive(t)
    \/ ReturnNil

Next ==
    \/ HeadFails
    \/ CallGetFileSize
    \/ ParseThreads
    \/ CallGetDownloadChunks
    \/ DownloadNext

Spec == Init /\ [][Next]_vars

(***************************************************************************)
(* The planner taken alone, on a wider range of inputs.                    *)
(***************************************************************************)
PlanSizes == 0..MaxPlanSize \cup { 1000 }

PlanInit == InitWith(PlanSizes, 1..MaxPlanThreads)

PlanNext == CallGetDownloadChunks

PlanSpec == PlanInit /\ [][PlanNext]_vars

(***************************************************************************)
(* The planner called with any worker count, 0 included.                   *)
(***************************************************************************)
PlanAnyInit == InitWith(PlanSizes, 0..MaxPlanThreads)

PlanAnyNext ==
    \/ CallGetDownloadChunks
    \/ GetDownloadChunksPanics

PlanAnySpec == PlanAnyInit /\ [][PlanAnyNext]_vars

(***************************************************************************)
(* The planner on sizes up to the largest unsigned value.                  *)
(***************************************************************************)
WideSizes ==
    (0..MaxPlanSize) \cup { UintMod - 1 - d : d \in 0..MaxPlanSize }
                    \cup { (UintMod \div 2) + d : d \in 0..MaxPlanSize }

WideInit == InitWith(WideSizes, 1..MaxPlanThreads)

WideSpec == WideInit /\ [][PlanNext]_vars

(***************************************************************************)
(* DownloadChunks called on its own with any plan, the empty one included, *)
(* and scheduled fairly: a goroutine that can run does run, a request and  *)
(* a copy end, and a send and a receive that are both ready meet.          *)
(***************************************************************************)
CallPlans(n) == { << >> } \cup { GetDownloadChunks(n, k) : k \in 1..MaxCallThreads }

CallInit ==
    /\ resLen \in 0..MaxCallSize
    /\ header = << >>
    /\ arg = << >>
    /\ mainErr = Nil
    /\ size = resLen
    /\ threads = 0
    /\ chunks \in CallPlans(resLen)
    /\ cpc = "create"
    /\ launched = 0
    /\ nrecv = 0
    /\ ret = NotReturned
    /\ recvd = << >>
    /\ fopen = FALSE
    /\ cursor = 0
    /\ file = << >>
    /\ mutex = 0
    /\ tpc = << >>
    /\ status = << >>
    /\ body = << >>
    /\ outcome = << >>
    /\ written = << >>
    /\ reports = << >>
    /\ gets = << >>

\* Any step of the goroutine of chunk t on its own.
TaskStep(t) ==
    \/ Request(t)
    \/ DoFails(t)
    \/ NewRequestFails(t)
    \/ Lock(t)
    \/ SeekOk(t)
    \/ SeekFails(t)
    \/ CopyByte(t)
    \/ CopyFails(t)
    \/ CopyDone(t)
    \/ UnlockAfterError(t)

Fairness ==
    /\ WF_vars(CreateFile)
    /\ WF_vars(Spawn)
    /\ WF_vars(ReturnNil)
    /\ WF_vars(\E t \in Tasks : Receive(t))
    /\ \A t \in 1..MaxCallThreads : WF_vars(t \in Tasks /\ TaskStep(t))

CallSpec == CallInit /\ [][DownloadNext]_vars /\ Fairness


(***************************************************************************)
(* Properties of the planner (checked under PlanSpec).                     *)
(***************************************************************************)
Planned == cpc # "plan"

\* The offsets of chunk k read as the half-open span [Start, End).
Span(k) == { o \in 0..size : chunks[k].Start <= o /\ o < chunks[k].End }

\* C1: the chunks, read as half-open spans, are contiguous in order: chunk 0
\* starts at 0, each End is the next Start, the last End is totalSize; so
\* every offset of [0, totalSize) lies in exactly one chunk and no chunk
\* reaches outside it.
C1_Contiguous ==
    Planned =>
        /\ Len(chunks) >= 1
        /\ chunks[1].Start = 0
        /\ \A k \in 1..(Len(chunks) - 1) : chunks[k].End = chunks[k + 1].Start
        /\ chunks[Len(chunks)].End = size
        /\ \A k \in 1..Len(chunks) : chunks[k].Start <= chunks[k].End
        /\ \A o \in 0..(size - 1) :
             Cardinality({ k \in 1..Len(chunks) : o \in Span(k) }) = 1

\* A plan of three chunks for a size three does not divide.
C1_Witness == Planned /\ size = 10 /\ threads = 3

C10_BaseAndRemainder ==
    Planned =>
        LET base == size \div threads
            n == Len(chunks)
        IN  /\ n = threads
            /\ \A k \in 1..n : chunks[k].Start = (k - 1) * base
            /\ \A k \in 1..(n - 1) : chunks[k].End = chunks[k].Start + base
            /\ chunks[n].End = size
            /\ (chunks[n].End - chunks[n].Start) - base = size % threads
            /\ (chunks[n].End - chunks[n].Start) - base <= threads - 1
            /\ (size = 1000 /\ threads = 3) =>
                 chunks = << DownloadChunk(0, 333), DownloadChunk(333, 666),
                             DownloadChunk(666, 1000) >>

\* The plan of the example.
C10_Witness ==
    /\ Planned /\ size = 1000 /\ threads = 3
    /\ chunks[3] = DownloadChunk(666, 1000)

(***************************************************************************)
(* Properties of DownloadChunks (checked under Spec).                      *)
(***************************************************************************)
Returned == cpc = "returned"

\* The tasks that hold the file between mutex.Lock and mutex.Unlock.
InCritical == { t \in Tasks : tpc[t] \in { "seek", "copy", "sendLocked", "unlock" } }

Failed(t) == outcome[t] \notin { Nil, Pending }

\* C2: every offset a task writes lies in its own chunk [Start, End); in
\* particular no task writes at its End.
C2_WritesWithinOwnChunk ==
    \A t \in Tasks : \A j \in 1..Len(written[t]) :
        chunks[t].Start <= written[t][j] /\ written[t][j] < chunks[t].End

\* C3: when DownloadChunks returns, every task it launched has reported.
C3_ReturnsAfterAllReported ==
    Returned => \A t \in Tasks : reports[t] = 1

\* C4: every task reports exactly once and then terminates: none reports
\* twice, a terminated task has reported once, and none is left sending on
\* errChan after the coordinator has stopped receiving.
C4_ReportsOnceNeverBlocked ==
    \A t \in Tasks :
        /\ reports[t] <= 1
        /\ tpc[t] \in { "unlock", "done" } => reports[t] = 1
        /\ ~ (Returned /\ tpc[t] \in { "send", "sendLocked" })

\* C5: DownloadChunks returns nil exactly when all len(chunks) tasks
\* reported success; when a task has failed the result is the first
\* non-nil outcome in the order received, and never nil.
C5_FirstErrorReceived ==
    Returned =>
        /\ ret = Nil <=>
             /\ Tasks = 1..Len(chunks)
             /\ \A t \in Tasks : reports[t] = 1 /\ outcome[t] = Nil
        /\ (\E t \in Tasks : Failed(t)) =>
             /\ ret # Nil
             /\ \E k \in 1..Len(recvd) :
                  /\ recvd[k] = ret
                  /\ \A j \in 1..(k - 1) : recvd[j] = Nil

\* The error of chunk 2 is returned, received after a success, although
\* chunk 1 has failed too and was not yet received.
C5_Witness ==
    /\ Returned
    /\ Len(chunks) = 3
    /\ ret = Err("status", 2)
    /\ recvd = << Nil, ret >>
    /\ Failed(1)

\* C6: a task answered with a status other than 206 reports a failure and
\* never seeks nor writes: it wrote nothing to the file.
C6_Non206NeverWrites ==
    \A t \in Tasks :
        (status[t] # 0 /\ status[t] # StatusPartialContent) =>
            /\ written[t] = << >>
            /\ tpc[t] \in { "send", "done" }
            /\ t \notin InCritical
            /\ outcome[t] = Err("status", t)

\* A task answered 200 has reported and ended while another task wrote.
C6_Witness ==
    \E t \in Tasks :
        /\ status[t] = StatusOK
        /\ tpc[t] = "done"
        /\ \E u \in Tasks : u # t /\ written[u] # << >>

\* C7: when DownloadChunks returns nil the file has exactly totalSize bytes
\* and is identical to the resource.
C7_FileEqualsResource ==
    (Returned /\ ret = Nil /\ size = resLen) =>
        /\ Len(file) = size
        /\ file = Resource(resLen)

\* A download by three tasks that succeeded, the first task writing last.
C7_Witness ==
    /\ Returned /\ ret = Nil
    /\ threads = 3 /\ size = 4
    /\ recvd = << Nil, Nil, Nil >>
    /\ cursor = chunks[1].End + 1

\* C8: at most one task is between Lock and Unlock, it is the holder of the
\* mutex, and each task's bytes land contiguously from its own Start.
C8_SeekAndWriteExclusive ==
    /\ Cardinality(InCritical) <= 1
    /\ \A t \in InCritical : mutex = t
    /\ \A t \in Tasks : \A j \in 1..Len(written[t]) :
         written[t][j] = chunks[t].Start + j - 1

\* One task is in the middle of its copy while another waits for the lock
\* and a third has written.
C8_Witness ==
    \E t, u, v \in Tasks :
        /\ t # u /\ u # v /\ t # v
        /\ tpc[t] = "copy" /\ written[t] # << >> /\ body[t] # << >>
        /\ tpc[u] = "lock"
        /\ written[v] # << >> /\ tpc[v] = "send"


(***************************************************************************)
(* Properties of main, GetFileSize and the planner on any input.           *)
(***************************************************************************)
\* C11: planning cannot fail: GetDownloadChunks returns a plan for every
\* input, and for workerCount = 0 it is the single chunk {0, totalSize},
\* not a crash.
C11_PlanningCannotFail ==
    cpc # "plan" =>
        /\ cpc # "panic"
        /\ Len(chunks) >= 1
        /\ threads = 0 => chunks = << DownloadChunk(0, size) >>

\* GetFileSize has returned: http.Head gave a response.
Responded == cpc # "head" /\ mainErr # Err("head", 0)

\* C12: when the HEAD response has no Content-Length header, GetFileSize
\* returns an error and main ends: no plan is computed, no file created, no
\* task launched and no GET issued.
C12_NoLengthNoPlan ==
    (Responded /\ header = << >>) =>
        /\ mainErr = Err("nolength", 0)
        /\ cpc = "exit"
        /\ chunks = << >>
        /\ ~ fopen /\ file = << >>
        /\ Tasks = {} /\ launched = 0 /\ gets = << >>

\* A response without the header, for a user who typed a valid count.
C12_Witness ==
    /\ header = << >>
    /\ cpc = "exit"
    /\ mainErr = Err("nolength", 0)
    /\ arg = << "2" >>
    /\ resLen = 3

\* C13: when os.Create fails DownloadChunks returns the error and launches
\* nothing: tasks are launched and awaited only with the file created, and
\* with the create error returned there is no task, no GET and no outcome
\* received.
C13_CreateFailureLaunchesNothing ==
    /\ cpc \in { "spawn", "recv" } => fopen
    /\ ret = Err("create", 0) =>
         /\ Returned
         /\ Tasks = {} /\ launched = 0 /\ gets = << >>
         /\ recvd = << >> /\ nrecv = 0

\* os.Create failed for a plan of three chunks.
C13_Witness ==
    /\ Returned
    /\ ret = Err("create", 0)
    /\ Len(chunks) = 3
    /\ size = 4

\* C14: GetFileSize succeeds only with the non-negative integer the header
\* states: the header is a string of digits and the size is its value.
C14_SizeIsHeaderValue ==
    (Responded /\ mainErr \notin { Err("nolength", 0), Err("parse", 0) }) =>
        /\ header # << >>
        /\ \A k \in 1..Len(header[1]) : IsDigit(header[1][k])
        /\ size = DigitsValue(header[1])

(***************************************************************************)
(* More properties of DownloadChunks (checked under Spec and CallSpec).    *)
(***************************************************************************)
\* The tasks that have sent their GET and had an answer.
Answered == { t \in Tasks : status[t] # 0 }

SpanOf(t) == RequestedSpan(RangeHeader(chunks[t].Start, chunks[t].End))

\* C15: the byte spans the Range headers ask for are pairwise disjoint and,
\* once every task has asked, cover [0, totalSize) exactly.
C15_RequestedSpansPartition ==
    size = resLen =>
        /\ \A t, u \in Answered : t # u => SpanOf(t) \cap SpanOf(u) = {}
        /\ (Tasks # {} /\ Answered = Tasks) =>
             UNION { SpanOf(t) : t \in Tasks } = 0..(size - 1)

\* C16: a task that has terminated or is sending after a successful write
\* does not hold the mutex, and a task that failed in Seek or in the copy
\* never keeps another task from the lock: it is never left sending with
\* the mutex held while another task waits for it.
C16_LockReleasedOnEveryExit ==
    \A t \in Tasks :
        /\ tpc[t] \in { "send", "done" } => mutex # t
        /\ ~ ( /\ tpc[t] = "sendLocked"
               /\ Returned
               /\ \E u \in Tasks : tpc[u] = "lock" )

\* C17: the handle is closed only after every task has finished with it: no
\* task calls Seek or Write on the closed handle.
C17_NoUseAfterClose ==
    \A t \in Tasks : outcome[t].kind # "closed"

RECURSIVE SumTo(_, _)
\* f[1] + ... + f[n]
SumTo(f, n) == IF n = 0 THEN 0 ELSE SumTo(f, n - 1) + f[n]

\* C18: no retries: one task per chunk, launched at most once; each task
\* issues at most one GET, none before it is launched; the GETs are never
\* more than len(chunks).
C18_NoRetries ==
    /\ Tasks # {} => Tasks = 1..Len(chunks)
    /\ launched <= Len(chunks)
    /\ \A t \in Tasks :
         /\ gets[t] <= 1
         /\ tpc[t] = "idle" <=> t > launched
         /\ tpc[t] \in { "idle", "start" } => gets[t] = 0
    /\ SumTo(gets, Len(gets)) <= Len(chunks)

\* Three chunks, each asked once; chunk 2 was refused and has reported.
C18_Witness ==
    /\ Returned
    /\ Len(chunks) = 3
    /\ \A t \in Tasks : gets[t] = 1
    /\ ret = Err("status", 2)
    /\ tpc[2] = "done"

C20_NoWrapAround ==
    Planned =>
        \A k \in 1..Len(chunks) :
            /\ (k - 1) * ChunkSize(size, threads) <= size
            /\ chunks[k].Start = (k - 1) * ChunkSize(size, threads)
            /\ chunks[k].Start <= chunks[k].End
            /\ chunks[k].End <= size

\* The largest size, planned for several workers.
C20_Witness ==
    /\ Planned
    /\ size = UintMod - 1
    /\ threads = 5
    /\ chunks[5].End = UintMod - 1

====
